---- MODULE Spec2Model ----
(***************************************************************************)
(* DronePilot: the terrain height field and mesh builder (Terrain.js), the *)
(* flight model (DroneControls.js), the projectile system (Drone.js), the  *)
(* camera mode (DroneCamera.js) and the animation loop (App.js).           *)
(*                                                                         *)
(* Numbers.  JavaScript numbers are modelled as fixed-point integers:      *)
(*   lengths, heights and positions   in 1/1000 world units,               *)
(*   angles                           in 1/1000 radian,                    *)
(*   noise values, sines and cosines  in 1/1000,                           *)
(*   times (dt, cooldown, life)       in milliseconds.                     *)
(* Products and quotients round toward zero.  Floating-point rounding of   *)
(* the browser's doubles is outside the model.                             *)
(***************************************************************************)
EXTENDS Integers, Sequences, FiniteSets, TLC

VARIABLES
    noise,        \* terrain.noise: which noise field the terrain owns
    meshI,        \* Terrain constructor: index i of the heightmap loop
    vertex,       \* Terrain constructor: the attributes written for the last vertex
    controls,     \* DroneControls: moveSpeed, rotateSpeed, worldSize, heightMax
    keys,         \* DroneControls.keys: key code -> held
    drone,        \* drone.group: position x, y, z, rotation.y (rotY), visible
    cooldown,     \* drone.cooldown (ms)
    projectiles,  \* drone.projectiles: sequence of projectile records
    scene,        \* ids of the projectile meshes currently added to the scene
    fired,        \* history: fired[id] = value of clock when projectile id was created
    lastFire,     \* history: the last call of Drone.fire, its arguments and its outcome
    camera,       \* THREE camera: position (x, y, z) and forward direction (dx, dy, dz)
    droneCamera,  \* DroneCamera: mode, yaw, pitch
    crosshair,    \* Crosshair element style.display
    clock,        \* App.js `last`: performance.now() of the previous frame (ms)
    animated,     \* history: TRUE once animate() has run at least once
    steps         \* number of handler invocations so far (bounds the exploration)

terrainVars == <<noise, meshI, vertex>>
flightVars  == <<controls, keys, drone>>
fireVars    == <<cooldown, projectiles, scene, fired, lastFire>>
viewVars    == <<camera, droneCamera, crosshair>>
vars == <<noise, meshI, vertex, controls, keys, drone, cooldown, projectiles,
          scene, fired, lastFire, camera, droneCamera, crosshair, clock,
          animated, steps>>

-----------------------------------------------------------------------------
(* Fixed-point arithmetic *)

\* 1000: milliseconds per second (App.js divides now - last by 1000), and the
\* resolution of every fixed-point quantity of the model.
Milli == 1000

Abs(a) == IF a < 0 THEN -a ELSE a

Max(a, b) == IF a >= b THEN a ELSE b

Min(a, b) == IF a <= b THEN a ELSE b

\* a * b for fixed-point a and b (one of them in 1/1000), rounded toward zero
MulMilli(a, b) ==
    IF a * b >= 0 THEN (a * b) \div Milli ELSE -((-(a * b)) \div Milli)

\* a / b for b > 0 in 1/1000, result in the unit of a, rounded toward zero
DivMilli(a, b) ==
    LET n == Abs(a)
        q == (n \div b) * Milli + ((n % b) * Milli) \div b
    IN  IF a >= 0 THEN q ELSE -q

\* Math.PI in 1/1000 radian
PiMilli == 3142

\* sin on [0, pi] (Bhaskara's rational approximation, on 1/100 radian)
SinHalfTurn(a) ==
    LET c == a \div 10
        p == PiMilli \div 10
        q == c * (p - c)
    IN  (16 * q * Milli) \div (5 * p * p - 4 * q)

\* Math.sin and Math.cos of an angle in 1/1000 radian, result in 1/1000
Sin(a) ==
    LET t == a % (2 * PiMilli)
    IN  IF t <= PiMilli THEN SinHalfTurn(t) ELSE -SinHalfTurn(t - PiMilli)

Cos(a) == Sin(a + PiMilli \div 2)

-----------------------------------------------------------------------------
(* Variables.js *)

ColorVariables == [
    terrainColor_m50  |-> "0x000033", terrainColor_m40 |-> "0x001a66",
    terrainColor_m30  |-> "0x003399", terrainColor_m20 |-> "0x004ccf",
    terrainColor_m10  |-> "0x1f75ff", terrainColor_0   |-> "0x66ccff",
    terrainColor_p10  |-> "0xeedc82", terrainColor_p20 |-> "0xd2b48c",
    terrainColor_p30  |-> "0x7cfc00", terrainColor_p40 |-> "0x228b22",
    terrainColor_p50  |-> "0x006400", terrainColor_p60 |-> "0x8b7765",
    terrainColor_p70  |-> "0xa9a9a9", terrainColor_p80 |-> "0x808080",
    terrainColor_p90  |-> "0x696969", terrainColor_p100 |-> "0xffffff",
    landMetalness  |-> 125, landRoughness  |-> 875,     \* 0.125, 0.875
    waterMetalness |-> 875, waterRoughness |-> 125 ]    \* 0.875, 0.125

DroneVariables == [
    moveSpeed        |-> 32,      \* world units per second
    rotateSpeed      |-> 2,       \* radians per second
    heightMax        |-> 2048,    \* world units
    basicMultiplier  |-> 2,
    thrustMultiplier |-> 6,
    minAboveGround   |-> 4,       \* world units
    nullPoint        |-> 0,
    projectileSpeed  |-> 120,     \* world units per second
    projectileTTL    |-> 4000,    \* 4 s
    cooldown         |-> 0,
    cooldownTime     |-> 300 ]    \* 0.3 s

TerrainVariables == [
    terrainSize            |-> 8192,
    terrainDetails         |-> 256,
    terrainBorderFactor    |-> 2000,    \* 2.000
    terrainBorderDelimiter |-> 125,     \* 0.125
    terrainHeight_m50 |-> -50, terrainHeight_m40 |-> -40,
    terrainHeight_m30 |-> -30, terrainHeight_m20 |-> -20,
    terrainHeight_m10 |-> -10, terrainHeight_0   |-> 0,
    terrainHeight_p10 |-> 10,  terrainHeight_p20 |-> 20,
    terrainHeight_p30 |-> 30,  terrainHeight_p40 |-> 40,
    terrainHeight_p50 |-> 50,  terrainHeight_p60 |-> 60,
    terrainHeight_p70 |-> 70,  terrainHeight_p80 |-> 80,
    terrainHeight_p90 |-> 90 ]

StartPositionVariables == [startPosX |-> 0, startPosY |-> 50, startPosZ |-> 0]

CameraPositionVariables == [startPosX |-> 0, startPosY |-> 10000, startPosZ |-> 0]

-----------------------------------------------------------------------------
(* Terrain.js: the noise field and getTerrainHeight *)

\* The noise fields the model explores are numbered 0 .. MaxSeed.
MaxSeed == 1

\* The values a noise field takes, in 1/1000 (ImprovedNoise ranges over [-1, 1]).
NoiseLevels == <<-1000, -700, -400, -100, -8, 0, 8, 100, 400, 700, 1000>>

\* noise.noise(a, b, c) of field n: a and b in 1/1000, c a whole layer number.
\* The field is a fixed function of the lattice cell of (a, b, c): the same
\* point always yields the same value, different cells yield different values.
NoiseAt(n, a, b, c) ==
    LET ca == a \div Milli
        cb == b \div Milli
        k  == (3 * ca * ca + 31 * ca + 5 * cb * cb + 17 * cb + 7 * c + 13 * n)
                  % Len(NoiseLevels)
    IN  NoiseLevels[k + 1]

\* getTerrainHeight(x, z, noise): x, z and the result in 1/1000 world units
getTerrainHeight(x, z, n) ==
    LET warpX == x + NoiseAt(n, MulMilli(x, 1), MulMilli(z, 1), 50) * 128
        warpZ == z + NoiseAt(n, MulMilli(x, 1), MulMilli(z, 1), 100) * 128
    IN  NoiseAt(n, MulMilli(warpX, 2),  MulMilli(warpZ, 2),  0) * 100
      + NoiseAt(n, MulMilli(warpX, 10), MulMilli(warpZ, 10), 0) * 25
      + NoiseAt(n, MulMilli(warpX, 50), MulMilli(warpZ, 50), 0) * 5

-----------------------------------------------------------------------------
(* Terrain.js: the Terrain constructor (heightmap loop) *)

\* this.size and this.seg
TerrainSize == TerrainVariables.terrainSize

TerrainSeg == TerrainVariables.terrainDetails

\* PlaneGeometry(size, size, seg, seg): (seg + 1) * (seg + 1) vertices, row by
\* row, x = ix * size / seg - size / 2 and, after rotateX, z = iy * size / seg - size / 2
VertexCount == (TerrainSeg + 1) * (TerrainSeg + 1)

VertexX(i) ==
    (i % (TerrainSeg + 1)) * ((TerrainSize * Milli) \div TerrainSeg)
        - (TerrainSize * Milli) \div 2

VertexZ(i) ==
    (i \div (TerrainSeg + 1)) * ((TerrainSize * Milli) \div TerrainSeg)
        - (TerrainSize * Milli) \div 2

\* Faulty variant of fixedHeight: one test for the whole band, -1 < h < 1 becomes 1
fixedHeightOneBand(h) ==
    IF h > -1 * Milli /\ h < 1 * Milli THEN 1 * Milli ELSE h

\* Height normalization: the Y written by pos.setY(i, fixedHeight)
fixedHeight(h) ==
    IF h > -1 * Milli /\ h < 0 THEN -1 * Milli
    ELSE IF h >= 0 /\ h < 1 * Milli THEN 1 * Milli
    ELSE h

\* Faulty variant of HeightColor: the chain with < in place of <=
HeightColorStrict(h) ==
    IF h < TerrainVariables.terrainHeight_m50 * Milli THEN ColorVariables.terrainColor_m50
    ELSE IF h < TerrainVariables.terrainHeight_m40 * Milli THEN ColorVariables.terrainColor_m40
    ELSE IF h < TerrainVariables.terrainHeight_m30 * Milli THEN ColorVariables.terrainColor_m30
    ELSE IF h < TerrainVariables.terrainHeight_m20 * Milli THEN ColorVariables.terrainColor_m20
    ELSE IF h < TerrainVariables.terrainHeight_m10 * Milli THEN ColorVariables.terrainColor_m10
    ELSE IF h < TerrainVariables.terrainHeight_0   * Milli THEN ColorVariables.terrainColor_0
    ELSE IF h < TerrainVariables.terrainHeight_p10 * Milli THEN ColorVariables.terrainColor_p10
    ELSE IF h < TerrainVariables.terrainHeight_p20 * Milli THEN ColorVariables.terrainColor_p20
    ELSE IF h < TerrainVariables.terrainHeight_p30 * Milli THEN ColorVariables.terrainColor_p30
    ELSE IF h < TerrainVariables.terrainHeight_p40 * Milli THEN ColorVariables.terrainColor_p40
    ELSE IF h < TerrainVariables.terrainHeight_p50 * Milli THEN ColorVariables.terrainColor_p50
    ELSE IF h < TerrainVariables.terrainHeight_p60 * Milli THEN ColorVariables.terrainColor_p60
    ELSE IF h < TerrainVariables.terrainHeight_p70 * Milli THEN ColorVariables.terrainColor_p70
    ELSE IF h < TerrainVariables.terrainHeight_p80 * Milli THEN ColorVariables.terrainColor_p80
    ELSE IF h < TerrainVariables.terrainHeight_p90 * Milli THEN ColorVariables.terrainColor_p90
    ELSE ColorVariables.terrainColor_p100

\* Height-based color selection: the if / else-if chain
HeightColor(h) ==
    IF h <= TerrainVariables.terrainHeight_m50 * Milli THEN ColorVariables.terrainColor_m50
    ELSE IF h <= TerrainVariables.terrainHeight_m40 * Milli THEN ColorVariables.terrainColor_m40
    ELSE IF h <= TerrainVariables.terrainHeight_m30 * Milli THEN ColorVariables.terrainColor_m30
    ELSE IF h <= TerrainVariables.terrainHeight_m20 * Milli THEN ColorVariables.terrainColor_m20
    ELSE IF h <= TerrainVariables.terrainHeight_m10 * Milli THEN ColorVariables.terrainColor_m10
    ELSE IF h <= TerrainVariables.terrainHeight_0   * Milli THEN ColorVariables.terrainColor_0
    ELSE IF h <= TerrainVariables.terrainHeight_p10 * Milli THEN ColorVariables.terrainColor_p10
    ELSE IF h <= TerrainVariables.terrainHeight_p20 * Milli THEN ColorVariables.terrainColor_p20
    ELSE IF h <= TerrainVariables.terrainHeight_p30 * Milli THEN ColorVariables.terrainColor_p30
    ELSE IF h <= TerrainVariables.terrainHeight_p40 * Milli THEN ColorVariables.terrainColor_p40
    ELSE IF h <= TerrainVariables.terrainHeight_p50 * Milli THEN ColorVariables.terrainColor_p50
    ELSE IF h <= TerrainVariables.terrainHeight_p60 * Milli THEN ColorVariables.terrainColor_p60
    ELSE IF h <= TerrainVariables.terrainHeight_p70 * Milli THEN ColorVariables.terrainColor_p70
    ELSE IF h <= TerrainVariables.terrainHeight_p80 * Milli THEN ColorVariables.terrainColor_p80
    ELSE IF h <= TerrainVariables.terrainHeight_p90 * Milli THEN ColorVariables.terrainColor_p90
    ELSE ColorVariables.terrainColor_p100

\* Faulty variant of HeightMetalness: a height of exactly 0 counts as land
HeightMetalnessStrict(h) ==
    IF h < 0 THEN ColorVariables.waterMetalness ELSE ColorVariables.landMetalness

\* Surface material properties by elevation
HeightMetalness(h) ==
    IF h <= 0 THEN ColorVariables.waterMetalness ELSE ColorVariables.landMetalness

HeightRoughness(h) ==
    IF h <= 0 THEN ColorVariables.waterRoughness ELSE ColorVariables.landRoughness

\* One iteration of the heightmap loop: what is written for vertex i
VertexAttributes(i, n) ==
    LET x == VertexX(i)
        z == VertexZ(i)
        h == getTerrainHeight(x, z, n)
    IN  [i |-> i, x |-> x, z |-> z, y |-> fixedHeight(h), hex |-> HeightColor(h),
         metalness |-> HeightMetalness(h), roughness |-> HeightRoughness(h)]

\* The vertex record before anything was written
NoVertex ==
    [i |-> -1, x |-> 0, z |-> 0, y |-> 0, hex |-> "", metalness |-> 0, roughness |-> 0]

\* this.water.position.y = 0.02
WaterPlaneY == 20

-----------------------------------------------------------------------------
(* DroneControls.js *)

\* The key codes applyInput reads
FlightCodes ==
    {"ShiftLeft", "ShiftRight", "KeyW", "KeyS", "KeyQ", "KeyE", "KeyA", "KeyD",
     "Space", "ControlLeft", "ControlRight"}

\* The key codes of the fire key (F) and the camera mode key (C)
FireCodes == {"KeyF", "KeyC"}

KeyCodes == FlightCodes \cup FireCodes

\* a || b on numbers: 0 stands for every falsy value (0, undefined)
OrElse(a, b) == IF a # 0 THEN a ELSE b

\* The options objects the constructor is given (0: the option is absent).
\* App.js passes moveSpeed, rotateSpeed and heightMax and no worldSize.
HeightMaxOptions == {0, 60, DroneVariables.heightMax}

WorldSizeOptions == {0, 16}

OptionSets ==
    [moveSpeed : {DroneVariables.moveSpeed}, rotateSpeed : {DroneVariables.rotateSpeed},
     worldSize : WorldSizeOptions, heightMax : HeightMaxOptions]

\* constructor(drone, terrain, options): the configuration it stores
DroneControls(options) ==
    [moveSpeed   |-> OrElse(options.moveSpeed, DroneVariables.moveSpeed),
     rotateSpeed |-> OrElse(options.rotateSpeed, DroneVariables.rotateSpeed),
     worldSize   |-> OrElse(options.worldSize,
                            OrElse(TerrainSize, TerrainVariables.terrainSize)),
     heightMax   |-> OrElse(options.heightMax, DroneVariables.heightMax)]

\* Faulty variant of Multiplier: only the left Shift key boosts
MultiplierLeftShiftOnly(k) ==
    IF k["ShiftLeft"]
    THEN DroneVariables.thrustMultiplier
    ELSE DroneVariables.basicMultiplier

\* multiplier, move (1/1000 world units) and rot (1/1000 radian) of a frame
Multiplier(k) ==
    IF k["ShiftLeft"] \/ k["ShiftRight"]
    THEN DroneVariables.thrustMultiplier
    ELSE DroneVariables.basicMultiplier

\* Faulty variant of MoveStep: a frame counts as at least one millisecond
MoveStepMinimalTick(c, k, dt) == c.moveSpeed * Max(dt, 1) * Multiplier(k)

MoveStep(c, k, dt) == c.moveSpeed * dt * Multiplier(k)

RotStep(c, dt) == c.rotateSpeed * dt

\* group.translateZ(d) and group.translateX(d): along the local axes of a
\* group rotated by rotation.y about the world Y axis
translateZ(d, dist) ==
    [d EXCEPT !.x = @ + MulMilli(dist, Sin(d.rotY)),
              !.z = @ + MulMilli(dist, Cos(d.rotY))]

translateX(d, dist) ==
    [d EXCEPT !.x = @ + MulMilli(dist, Cos(d.rotY)),
              !.z = @ - MulMilli(dist, Sin(d.rotY))]

\* TRANSLATION CONTROLS
Translate(d, k, move) ==
    LET d1 == IF k["KeyW"] THEN translateZ(d, -move) ELSE d
        d2 == IF k["KeyS"] THEN translateZ(d1, move) ELSE d1
        d3 == IF k["KeyQ"] THEN translateX(d2, -move) ELSE d2
    IN  IF k["KeyE"] THEN translateX(d3, move) ELSE d3

\* Faulty variant of Rotate: yaw right is an else branch of yaw left
RotateLeftWins(d, k, rot) ==
    IF k["KeyA"] THEN [d EXCEPT !.rotY = @ + rot]
    ELSE IF k["KeyD"] THEN [d EXCEPT !.rotY = @ - rot]
    ELSE d

\* ROTATION CONTROLS
Rotate(d, k, rot) ==
    LET d1 == IF k["KeyA"] THEN [d EXCEPT !.rotY = @ + rot] ELSE d
    IN  IF k["KeyD"] THEN [d1 EXCEPT !.rotY = @ - rot] ELSE d1

\* ALTITUDE CONTROLS
Altitude(d, k, move) ==
    LET d1 == IF k["Space"] THEN [d EXCEPT !.y = @ + move] ELSE d
    IN  IF k["ControlLeft"] \/ k["ControlRight"]
        THEN [d1 EXCEPT !.y = @ - move] ELSE d1

\* Faulty variants of Half: the quotient is cut to a whole number of world
\* units; the border delimiter is left out of the divisor
HalfTruncated(c) ==
    ((c.worldSize * Milli) \div
        (TerrainVariables.terrainBorderFactor + TerrainVariables.terrainBorderDelimiter))
      * Milli

HalfNoDelimiter(c) ==
    DivMilli(c.worldSize * Milli, TerrainVariables.terrainBorderFactor)

\* WORLD BOUNDARIES: half, and the clamp of x and z
Half(c) ==
    DivMilli(c.worldSize * Milli,
             TerrainVariables.terrainBorderFactor + TerrainVariables.terrainBorderDelimiter)

\* Faulty variant of ClampBorder: the lower bound is missing
ClampBorderUpperOnly(v, half) == Min(half, v)

ClampBorder(v, half) == Max(-half, Min(half, v))

WorldBoundaries(d, c) ==
    [d EXCEPT !.x = ClampBorder(@, Half(c)), !.z = ClampBorder(@, Half(c))]

\* TERRAIN COLLISION & ALTITUDE LIMITS
GroundHeight(d, n) == getTerrainHeight(d.x, d.z, n)

\* Faulty variant of MinHeight: minAboveGround is not added
MinHeightNoClearance(groundHeight) ==
    Max(DroneVariables.nullPoint * Milli, groundHeight)

MinHeight(groundHeight) ==
    Max(DroneVariables.nullPoint * Milli,
        groundHeight + DroneVariables.minAboveGround * Milli)

\* Faulty variant of ClampAltitude: the upper bound is missing
ClampAltitudeNoCeiling(y, minHeight, heightMax) == Max(minHeight, y)

ClampAltitude(y, minHeight, heightMax) == Max(minHeight, Min(heightMax, y))

AltitudeLimits(d, c, n) ==
    [d EXCEPT !.y = ClampAltitude(@, MinHeight(GroundHeight(d, n)), c.heightMax * Milli)]

\* Faulty variant of applyInput: the yaw change comes before the translation
applyInputYawFirst(d, c, k, n, dt) ==
    LET move == MoveStep(c, k, dt)
        rot  == RotStep(c, dt)
        d1   == Rotate(d, k, rot)
        d2   == Translate(d1, k, move)
        d3   == Altitude(d2, k, move)
        d4   == WorldBoundaries(d3, c)
    IN  AltitudeLimits(d4, c, n)

\* applyInput(dt): the drone after the call
applyInput(d, c, k, n, dt) ==
    LET move == MoveStep(c, k, dt)
        rot  == RotStep(c, dt)
        d1   == Translate(d, k, move)
        d2   == Rotate(d1, k, rot)
        d3   == Altitude(d2, k, move)
        d4   == WorldBoundaries(d3, c)
    IN  AltitudeLimits(d4, c, n)

-----------------------------------------------------------------------------
(* Drone.js: fire and update *)

\* The value of a call that ends at `return;` or at the end of the body
Undefined == "undefined"

\* Faulty variant of FireResult: a successful call returns the projectile it created
FireResultProjectile(ok, proj) == IF ok THEN "projectile" ELSE Undefined

\* The value a call of fire returns: both early exits are a bare `return;`
\* and the body ends without a return statement
FireResult(ok, proj) == Undefined

\* The record of a call of fire(camera, mode): n counts the calls, mode and
\* cooldown are the argument and this.cooldown at the call
FireCall(n, mode, cd, result) ==
    [n |-> n, mode |-> mode, cooldown |-> cd, result |-> result]

\* Faulty variants of FireAllowed: the cooldown test is missing; the mode test is missing
FireAllowedNoCooldown(cd, mode) == ~(mode # "first")

FireAllowedAnyMode(cd, mode) == ~(cd > 0)

\* if (this.cooldown > 0) return; if (mode !== "first") return;
FireAllowed(cd, mode) == ~(cd > 0) /\ ~(mode # "first")

\* The projectile fire creates: it starts at the camera's world position,
\* flies along the camera's forward vector and lives projectileTTL
NewProjectile(id, cam) ==
    [id |-> id, x |-> cam.x, y |-> cam.y, z |-> cam.z,
     dx |-> cam.dx, dy |-> cam.dy, dz |-> cam.dz,
     life |-> DroneVariables.projectileTTL]

\* Faulty variant of CooldownAfter: the timer is not stopped at 0
CooldownAfterUnclamped(cd, dt) == IF cd > 0 THEN cd - dt ELSE cd

\* Faulty variant of CooldownAfter: the timer is not advanced
CooldownAfterNoTimer(cd, dt) == cd

\* The cooldown timer of update(dt)
CooldownAfter(cd, dt) == IF cd > 0 THEN Max(0, cd - dt) ELSE cd

\* Faulty variant of AdvanceProjectile: life is not decreased
AdvanceProjectileNoAging(p, dt) ==
    [p EXCEPT !.x = @ + MulMilli(p.dx, DroneVariables.projectileSpeed * dt),
              !.y = @ + MulMilli(p.dy, DroneVariables.projectileSpeed * dt),
              !.z = @ + MulMilli(p.dz, DroneVariables.projectileSpeed * dt)]

\* p.position.addScaledVector(p.userData.dir, projectileSpeed * dt); life -= dt
AdvanceProjectile(p, dt) ==
    [p EXCEPT !.x = @ + MulMilli(p.dx, DroneVariables.projectileSpeed * dt),
              !.y = @ + MulMilli(p.dy, DroneVariables.projectileSpeed * dt),
              !.z = @ + MulMilli(p.dz, DroneVariables.projectileSpeed * dt),
              !.life = @ - dt]

\* this.projectiles.splice(i, 1), i counted from 1
Splice(ps, i) == SubSeq(ps, 1, i - 1) \o SubSeq(ps, i + 1, Len(ps))

\* Faulty variant of Expired: a projectile with life exactly 0 is kept
ExpiredStrict(p) == p.life < 0

Expired(p) == p.life <= 0

\* Faulty variant of UpdateProjectiles: the loop runs forward, so the
\* projectile that follows a removed one is passed over
RECURSIVE ForwardPass(_, _, _, _)
ForwardPass(ps, sc, i, dt) ==
    IF i > Len(ps) THEN [projectiles |-> ps, scene |-> sc]
    ELSE LET p == AdvanceProjectile(ps[i], dt)
             advanced == [ps EXCEPT ![i] = p]
         IN  IF Expired(p)
             THEN ForwardPass(Splice(advanced, i), sc \ {p.id}, i + 1, dt)
             ELSE ForwardPass(advanced, sc, i + 1, dt)

UpdateProjectilesForward(ps, sc, i, dt) == ForwardPass(ps, sc, 1, dt)

\* for (let i = this.projectiles.length - 1; i >= 0; i--) { ... }: the list
\* and the scene after the iterations i, i - 1, ..., 1 (i counted from 1)
RECURSIVE UpdateProjectiles(_, _, _, _)
UpdateProjectiles(ps, sc, i, dt) ==
    IF i < 1 THEN [projectiles |-> ps, scene |-> sc]
    ELSE LET p == AdvanceProjectile(ps[i], dt)
             advanced == [ps EXCEPT ![i] = p]
         IN  IF Expired(p)
             THEN UpdateProjectiles(Splice(advanced, i), sc \ {p.id}, i - 1, dt)
             ELSE UpdateProjectiles(advanced, sc, i - 1, dt)

ProjectileIds(ps) == {ps[i].id : i \in 1..Len(ps)}

-----------------------------------------------------------------------------
(* DroneCamera.js *)

\* Default mode and view angles of the constructor: distance 30, yaw 0, pitch 0.3
CameraDistance == 30

InitialDroneCamera ==
    [mode |-> "third", yaw |-> 0, pitch |-> 300, isDragging |-> FALSE, isAiming |-> FALSE]

\* Math.sqrt on whole numbers (Newton's iteration), rounded down
RECURSIVE SqrtFrom(_, _)
SqrtFrom(n, r) ==
    LET next == (r + n \div r) \div 2
    IN  IF next >= r THEN r ELSE SqrtFrom(n, next)

Sqrt(n) == IF n <= 0 THEN 0 ELSE SqrtFrom(n, n)

\* Faulty variant of ToggledCamera: entering first-person keeps the view angles
ToggledCameraNoReset(dc) ==
    [dc EXCEPT !.mode = IF dc.mode = "first" THEN "third" ELSE "first"]

\* toggleMode(): the DroneCamera after the call
ToggledCamera(dc) ==
    IF (IF dc.mode = "first" THEN "third" ELSE "first") = "first"
    THEN [dc EXCEPT !.mode = "first", !.yaw = 0, !.pitch = 0]
    ELSE [dc EXCEPT !.mode = "third"]

\* THREE.MathUtils.degToRad: 1/1000 degree to 1/1000 radian
degToRad(deg) ==
    IF deg >= 0 THEN (deg * PiMilli) \div 180000 ELSE -((-deg * PiMilli) \div 180000)

\* mousedown and mouseup: button 0 is the left button, 2 the right button
MouseDown(dc, button) ==
    LET d1 == IF button = 0 THEN [dc EXCEPT !.isDragging = TRUE] ELSE dc
    IN  IF button = 2 THEN [d1 EXCEPT !.isAiming = TRUE] ELSE d1

MouseUp(dc, button) ==
    LET d1 == IF button = 0 THEN [dc EXCEPT !.isDragging = FALSE] ELSE dc
    IN  IF button = 2 THEN [d1 EXCEPT !.isAiming = FALSE] ELSE d1

\* mousemove, third-person: yaw -= movementX * 0.005, pitch -= movementY * 0.005,
\* pitch clamped to [-PI / 3, PI / 3]; movementX and movementY in pixels
OrbitMove(dc, e) ==
    IF dc.mode = "third" /\ dc.isDragging
    THEN [dc EXCEPT !.yaw = @ - e.movementX * 5,
                    !.pitch = Max(-(PiMilli \div 3),
                                  Min(PiMilli \div 3, @ - e.movementY * 5))]
    ELSE dc

\* mousemove, first-person: pitch = degToRad(-dy * 77.5) clamped to
\* [-67.5, 10] degrees, yaw -= movementX * 0.0025 clamped to [-45, 45] degrees;
\* e.dy is (clientY - centerY) / (rect.height / 2) in 1/1000
AimMove(dc, e) ==
    IF dc.mode = "first" /\ dc.isAiming
    THEN [dc EXCEPT !.pitch = Max(degToRad(-67500),
                                  Min(degToRad(10000), degToRad(MulMilli(-e.dy, 77500)))),
                    !.yaw = Max(degToRad(-45000),
                                Min(degToRad(45000), @ - MulMilli(e.movementX, 2500)))]
    ELSE dc

MouseMove(dc, e) == AimMove(OrbitMove(dc, e), e)

\* toggleMode(): drone.group.visible after the call
ToggledVisible(dc) == ~((IF dc.mode = "first" THEN "third" ELSE "first") = "first")

\* update(), first-person: the camera sits at the drone and looks along the
\* drone's heading turned by yaw and pitched by pitch
FirstPersonCamera(d, dc) ==
    [x |-> d.x, y |-> d.y, z |-> d.z,
     dx |-> -MulMilli(Cos(dc.pitch), Sin(d.rotY + dc.yaw)),
     dy |-> Sin(dc.pitch),
     dz |-> -MulMilli(Cos(dc.pitch), Cos(d.rotY + dc.yaw))]

\* update(), third-person: the camera orbits the drone at the offset and
\* looks at the drone
ThirdPersonCamera(d, dc) ==
    LET ox  == MulMilli(MulMilli(Cos(dc.pitch), Sin(dc.yaw)), CameraDistance * Milli)
        oy  == MulMilli(Sin(dc.pitch), CameraDistance * Milli) + 10 * Milli
        oz  == MulMilli(MulMilli(Cos(dc.pitch), Cos(dc.yaw)), CameraDistance * Milli)
        len == Sqrt(ox * ox + oy * oy + oz * oz)
    IN  [x |-> d.x + ox, y |-> d.y + oy, z |-> d.z + oz,
         dx |-> DivMilli(-ox, len), dy |-> DivMilli(-oy, len), dz |-> DivMilli(-oz, len)]

CameraUpdate(d, dc) ==
    IF dc.mode = "first" THEN FirstPersonCamera(d, dc) ELSE ThirdPersonCamera(d, dc)

\* The camera App.js creates: at CameraPositionVariables, looking down -Z
InitialCamera ==
    [x |-> CameraPositionVariables.startPosX * Milli,
     y |-> CameraPositionVariables.startPosY * Milli,
     z |-> CameraPositionVariables.startPosZ * Milli,
     dx |-> 0, dy |-> 0, dz |-> -Milli]

\* Crosshair: setVisible(visible) and the constructor's hide()
Display(visible) == IF visible THEN "block" ELSE "none"

-----------------------------------------------------------------------------
(* Bounds of the exploration *)

\* Frame times now - last (ms): a repeated timestamp, a short frame, a frame
\* of exactly cooldownTime and a frame of exactly projectileTTL
DtSet == {0, 100, DroneVariables.cooldownTime, DroneVariables.projectileTTL}

\* Frame times when firing: those, and a frame of projectileTTL - cooldownTime,
\* after which of two shots fired cooldownTime apart only the first has expired
FireDtSet == DtSet \cup {DroneVariables.projectileTTL - DroneVariables.cooldownTime}

\* The mousemove events explored: a move down and right over the lower edge
\* of the canvas, a move up and left over the upper edge, and a sweep to the
\* right and up that ends at the centre line
MouseMoves ==
    {[movementX |-> 100, movementY |-> 100, dy |-> 1000],
     [movementX |-> -100, movementY |-> -100, dy |-> -1000],
     [movementX |-> 400, movementY |-> -400, dy |-> 0]}

\* The mouse buttons pressed and released: left and right
MouseButtons == {0, 2}

\* Handler invocations explored when the mouse and the camera key are used
MaxCameraSteps == 5

\* The flight keys used while playing: forward and up
PlayCodes == {"KeyW", "Space"}

\* Handler invocations explored when flying, looking and firing together
MaxPlaySteps == 5

\* Handler invocations explored when the flight keys are used
MaxSteps == 4

\* Handler invocations explored when the fire and camera keys are used
MaxFireSteps == 6

\* Frame times of a burst: the fire key is used once every cooldownTime
BurstDtSet == {DroneVariables.cooldownTime}

\* Handler invocations explored in a burst: entering first-person, fifteen
\* shots and the fourteen frames between them
MaxBurstSteps == 30

-----------------------------------------------------------------------------
(* The state after App.js has constructed everything *)

InitialDrone ==
    [x |-> StartPositionVariables.startPosX * Milli,
     y |-> StartPositionVariables.startPosY * Milli,
     z |-> StartPositionVariables.startPosZ * Milli,
     rotY |-> 0, visible |-> TRUE]

\* Everything App.js constructs besides the terrain, the drone's group and
\* the flight configuration
InitObjects ==
    /\ keys = [code \in KeyCodes |-> FALSE]
    /\ cooldown = DroneVariables.cooldown
    /\ projectiles = <<>>
    /\ scene = {}
    /\ fired = <<>>
    /\ lastFire = FireCall(0, "", 0, Undefined)
    /\ camera = InitialCamera
    /\ droneCamera = InitialDroneCamera
    /\ crosshair = Display(FALSE)
    /\ clock = 0
    /\ animated = FALSE
    /\ steps = 0

InitApp == drone = InitialDrone /\ InitObjects

Init ==
    /\ noise \in 0..MaxSeed
    /\ meshI = VertexCount
    /\ vertex = VertexAttributes(VertexCount - 1, noise)
    /\ controls \in {DroneControls(o) : o \in OptionSets}
    /\ InitApp

\* new Drone(scene, startX, startY, startZ): the group at the start position
DroneAt(start) ==
    [x |-> start.x * Milli, y |-> start.y * Milli, z |-> start.z * Milli,
     rotY |-> 0, visible |-> TRUE]

\* Start positions a Drone is constructed at: the default of App.js, a drone
\* beyond the flight border, and a drone low over ground below sea level
StartPositions ==
    {[x |-> StartPositionVariables.startPosX, y |-> StartPositionVariables.startPosY,
      z |-> StartPositionVariables.startPosZ],
     [x |-> 4000, y |-> 10, z |-> 0],
     [x |-> -28, y |-> 10, z |-> 90]}

\* The options of the scenarios: App.js's, and a worldSize above terrain.size
ScenarioOptions ==
    [moveSpeed : {DroneVariables.moveSpeed}, rotateSpeed : {DroneVariables.rotateSpeed},
     worldSize : {0, 2 * TerrainSize}, heightMax : {DroneVariables.heightMax}]

InitScenario ==
    /\ noise \in 0..MaxSeed
    /\ meshI = VertexCount
    /\ vertex = VertexAttributes(VertexCount - 1, noise)
    /\ controls \in {DroneControls(o) : o \in ScenarioOptions}
    /\ \E start \in StartPositions : drone = DroneAt(start)
    /\ InitObjects

\* The options object App.js passes to DroneControls
AppOptions ==
    [moveSpeed |-> DroneVariables.moveSpeed, rotateSpeed |-> DroneVariables.rotateSpeed,
     worldSize |-> 0, heightMax |-> DroneVariables.heightMax]

\* The state App.js constructs
InitBurst ==
    /\ noise \in 0..MaxSeed
    /\ meshI = VertexCount
    /\ vertex = VertexAttributes(VertexCount - 1, noise)
    /\ controls = DroneControls(AppOptions)
    /\ InitApp

\* Options objects with malformed values: a negative number is passed on by
\* ||, a zero (like NaN and undefined) is replaced by the default
MalformedOptions ==
    [moveSpeed : {-DroneVariables.moveSpeed, DroneVariables.moveSpeed},
     rotateSpeed : {DroneVariables.rotateSpeed},
     worldSize : {-16, 0}, heightMax : {-5, 0}]

\* The state after constructing DroneControls from such options
InitConstruct ==
    /\ noise \in 0..MaxSeed
    /\ meshI = VertexCount
    /\ vertex = VertexAttributes(VertexCount - 1, noise)
    /\ controls \in {DroneControls(o) : o \in MalformedOptions}
    /\ InitApp

\* The Terrain constructor entering the heightmap loop
InitMesh ==
    /\ noise \in 0..MaxSeed
    /\ meshI = 0
    /\ vertex = NoVertex
    /\ controls = DroneControls([moveSpeed |-> 0, rotateSpeed |-> 0,
                                 worldSize |-> 0, heightMax |-> 0])
    /\ InitApp

-----------------------------------------------------------------------------
(* Handlers *)

\* Terrain constructor: one iteration of the heightmap loop
BuildVertex ==
    /\ meshI < VertexCount
    /\ vertex' = VertexAttributes(meshI, noise)
    /\ meshI' = meshI + 1
    /\ UNCHANGED <<noise, flightVars, fireVars, viewVars, clock, animated>>

\* Faulty variant of Fire: the new projectile is put at the front of the list
FireUnshift ==
    LET ok == FireAllowed(cooldown, droneCamera.mode)
        id == Len(fired) + 1
    IN  /\ cooldown' = IF ok THEN DroneVariables.cooldownTime ELSE cooldown
        /\ projectiles' = IF ok THEN <<NewProjectile(id, camera)>> \o projectiles
                                ELSE projectiles
        /\ scene' = IF ok THEN scene \cup {id} ELSE scene
        /\ fired' = IF ok THEN Append(fired, clock) ELSE fired
        /\ lastFire' = FireCall(lastFire.n + 1, droneCamera.mode, cooldown,
                                 FireResult(ok, NewProjectile(id, camera)))

\* Drone.fire(camera, droneCamera.mode), called by the F key handler
Fire ==
    LET ok == FireAllowed(cooldown, droneCamera.mode)
        id == Len(fired) + 1
    IN  /\ cooldown' = IF ok THEN DroneVariables.cooldownTime ELSE cooldown
        /\ projectiles' = IF ok THEN Append(projectiles, NewProjectile(id, camera))
                                ELSE projectiles
        /\ scene' = IF ok THEN scene \cup {id} ELSE scene
        /\ fired' = IF ok THEN Append(fired, clock) ELSE fired
        /\ lastFire' = FireCall(lastFire.n + 1, droneCamera.mode, cooldown,
                                 FireResult(ok, NewProjectile(id, camera)))

\* DroneCamera.toggleMode(), called by the C key handler
ToggleMode ==
    /\ droneCamera' = ToggledCamera(droneCamera)
    /\ drone' = [drone EXCEPT !.visible = ToggledVisible(droneCamera)]

\* The mouse listeners of DroneCamera
MouseEvent(next) ==
    /\ droneCamera' = next
    /\ UNCHANGED <<terrainVars, flightVars, fireVars, camera, crosshair, clock, animated>>

\* A keydown event: DroneControls records the code, DroneCamera toggles the
\* mode on C, App.js fires on F
KeyDown(code) ==
    /\ keys' = [keys EXCEPT ![code] = TRUE]
    /\ IF code = "KeyC" THEN ToggleMode ELSE UNCHANGED <<droneCamera, drone>>
    /\ IF code = "KeyF" THEN Fire ELSE UNCHANGED fireVars
    /\ UNCHANGED <<terrainVars, controls, camera, crosshair, clock, animated>>

\* A keyup event of a held key
KeyUp(code) ==
    /\ keys[code]
    /\ keys' = [keys EXCEPT ![code] = FALSE]
    /\ UNCHANGED <<terrainVars, controls, drone, fireVars, viewVars, clock, animated>>

\* Faulty variant of Animate: the frame consumes the key flags it has read
AnimateConsumingKeys(dt) ==
    LET updated == UpdateProjectiles(projectiles, scene, Len(projectiles), dt)
    IN  /\ clock' = clock + dt
        /\ drone' = applyInput(drone, controls, keys, noise, dt)
        /\ keys' = [code \in KeyCodes |-> FALSE]
        /\ cooldown' = CooldownAfter(cooldown, dt)
        /\ projectiles' = updated.projectiles
        /\ scene' = updated.scene
        /\ camera' = CameraUpdate(drone', droneCamera)
        /\ crosshair' = Display(droneCamera.mode = "first")
        /\ animated' = TRUE
        /\ UNCHANGED <<terrainVars, controls, fired, lastFire, droneCamera>>

\* Faulty variant of Animate: the frame's height query leaves the noise
\* object in another state, so later queries see another field
\* Faulty variant of Animate: the camera is placed before the flight update
AnimateCameraFirst(dt) ==
    LET updated == UpdateProjectiles(projectiles, scene, Len(projectiles), dt)
    IN  /\ clock' = clock + dt
        /\ drone' = applyInput(drone, controls, keys, noise, dt)
        /\ cooldown' = CooldownAfter(cooldown, dt)
        /\ projectiles' = updated.projectiles
        /\ scene' = updated.scene
        /\ camera' = CameraUpdate(drone, droneCamera)
        /\ crosshair' = Display(droneCamera.mode = "first")
        /\ animated' = TRUE
        /\ UNCHANGED <<terrainVars, controls, keys, fired, lastFire, droneCamera>>

AnimateReseeding(dt) ==
    LET updated == UpdateProjectiles(projectiles, scene, Len(projectiles), dt)
    IN  /\ clock' = clock + dt
        /\ drone' = applyInput(drone, controls, keys, noise, dt)
        /\ noise' = (noise + 1) % (MaxSeed + 1)
        /\ cooldown' = CooldownAfter(cooldown, dt)
        /\ projectiles' = updated.projectiles
        /\ scene' = updated.scene
        /\ camera' = CameraUpdate(drone', droneCamera)
        /\ crosshair' = Display(droneCamera.mode = "first")
        /\ animated' = TRUE
        /\ UNCHANGED <<meshI, vertex, controls, keys, fired, lastFire, droneCamera>>

\* animate(): one frame, dt = (now - last) / 1000 with now = last + dt
Animate(dt) ==
    LET updated == UpdateProjectiles(projectiles, scene, Len(projectiles), dt)
    IN  /\ clock' = clock + dt
        /\ drone' = applyInput(drone, controls, keys, noise, dt)
        /\ cooldown' = CooldownAfter(cooldown, dt)
        /\ projectiles' = updated.projectiles
        /\ scene' = updated.scene
        /\ camera' = CameraUpdate(drone', droneCamera)
        /\ crosshair' = Display(droneCamera.mode = "first")
        /\ animated' = TRUE
        /\ UNCHANGED <<terrainVars, controls, keys, fired, lastFire, droneCamera>>

-----------------------------------------------------------------------------
(* Specifications *)

\* One more handler invocation, at most max of them
Step(max) == steps < max /\ steps' = steps + 1

\* Flying: the flight keys and the frames
FlightKeyDown == \E code \in FlightCodes : Step(MaxSteps) /\ KeyDown(code)

FlightKeyUp == \E code \in FlightCodes : Step(MaxSteps) /\ KeyUp(code)

FlightFrame == \E dt \in DtSet : Step(MaxSteps) /\ Animate(dt)

NextFlight == FlightKeyDown \/ FlightKeyUp \/ FlightFrame

SpecFlight == Init /\ [][NextFlight]_vars

\* Firing: the F key, the C key and the frames
FireKeyDown == Step(MaxFireSteps) /\ KeyDown("KeyF")

CameraKeyDown == Step(MaxFireSteps) /\ KeyDown("KeyC")

FireFrame == \E dt \in FireDtSet : Step(MaxFireSteps) /\ Animate(dt)

NextFire == FireKeyDown \/ CameraKeyDown \/ FireFrame

SpecFire == Init /\ [][NextFire]_vars

\* A burst: the pilot enters first-person once and presses the fire key at
\* will; once in first-person no frame passes with the weapon ready and unfired
BurstCameraKeyDown ==
    droneCamera.mode = "third" /\ Step(MaxBurstSteps) /\ KeyDown("KeyC")

BurstFireKeyDown == Step(MaxBurstSteps) /\ KeyDown("KeyF")

BurstFrame ==
    \E dt \in BurstDtSet :
        /\ droneCamera.mode = "third" \/ cooldown > 0
        /\ Step(MaxBurstSteps)
        /\ Animate(dt)

NextBurst == BurstCameraKeyDown \/ BurstFireKeyDown \/ BurstFrame

SpecBurst == InitBurst /\ [][NextBurst]_vars

\* Flying with a DroneControls constructed from malformed options
SpecConstruct == InitConstruct /\ [][NextFlight]_vars

\* Looking around: the mouse, the camera key and the frames
LookKeyDown == Step(MaxCameraSteps) /\ KeyDown("KeyC")

LookMouseDown ==
    \E button \in MouseButtons :
        Step(MaxCameraSteps) /\ MouseEvent(MouseDown(droneCamera, button))

LookMouseUp ==
    \E button \in MouseButtons :
        Step(MaxCameraSteps) /\ MouseEvent(MouseUp(droneCamera, button))

LookMouseMove ==
    \E e \in MouseMoves : Step(MaxCameraSteps) /\ MouseEvent(MouseMove(droneCamera, e))

LookFrame == \E dt \in DtSet : Step(MaxCameraSteps) /\ Animate(dt)

NextCamera == LookKeyDown \/ LookMouseDown \/ LookMouseUp \/ LookMouseMove \/ LookFrame

SpecCamera == InitBurst /\ [][NextCamera]_vars

\* Playing: flight keys, the F key, the C key and the frames
PlayKeyDown == \E code \in PlayCodes : Step(MaxPlaySteps) /\ KeyDown(code)

PlayKeyUp == \E code \in PlayCodes : Step(MaxPlaySteps) /\ KeyUp(code)

PlayFireKeyDown == Step(MaxPlaySteps) /\ KeyDown("KeyF")

PlayCameraKeyDown == Step(MaxPlaySteps) /\ KeyDown("KeyC")

PlayFrame == \E dt \in DtSet : Step(MaxPlaySteps) /\ Animate(dt)

NextPlay == PlayKeyDown \/ PlayKeyUp \/ PlayFireKeyDown \/ PlayCameraKeyDown \/ PlayFrame

SpecPlay == InitBurst /\ [][NextPlay]_vars

\* Flying from the start positions of the scenarios
SpecScenario == InitScenario /\ [][NextFlight]_vars

\* Building the terrain mesh
NextMesh == BuildVertex /\ UNCHANGED steps

SpecMesh == InitMesh /\ [][NextMesh]_vars

-----------------------------------------------------------------------------
(* Flight: ground clamp, ceiling and border *)

\* The lower altitude limit at the drone's present x and z
GroundLimit ==
    Max(DroneVariables.nullPoint * Milli,
        getTerrainHeight(drone.x, drone.z, noise) + DroneVariables.minAboveGround * Milli)

\* C1: after every applyInput the drone's y is at least
\* max(nullPoint, getTerrainHeight(x, z) + minAboveGround) at the x and z the
\* call ended with.
C1_GroundClamp == animated => drone.y >= GroundLimit

\* C1 witness: the drone descended onto rising ground and rests on the limit.
C1_Witness ==
    /\ animated
    /\ keys["ControlLeft"] \/ keys["ControlRight"]
    /\ drone.y = GroundLimit
    /\ GroundLimit > DroneVariables.nullPoint * Milli

\* C2 as stated: after every applyInput the drone's y is at most heightMax,
\* whatever the terrain height and the configured heightMax.
C2_Original == animated => drone.y <= controls.heightMax * Milli

\* C2 amended: after every applyInput y is at most heightMax when the lower
\* limit max(nullPoint, ground + minAboveGround) does not exceed heightMax, and
\* y is exactly that lower limit when it does.
C2_Ceiling ==
    animated =>
        /\ GroundLimit <= controls.heightMax * Milli => drone.y <= controls.heightMax * Milli
        /\ GroundLimit > controls.heightMax * Milli => drone.y = GroundLimit

\* C2 witness: the drone ascended and was stopped at heightMax, above the ground limit.
C2_Witness ==
    /\ animated
    /\ keys["Space"]
    /\ drone.y = controls.heightMax * Milli
    /\ GroundLimit < controls.heightMax * Milli

\* The position a frame of dt = clock' - clock would reach without the border
Pushed == Translate(drone, keys, MoveStep(controls, keys, clock' - clock))

\* C3: after every applyInput x and z lie in [-half, half], and every frame
\* whose input pushes a coordinate past the border leaves that coordinate at
\* exactly +half or -half.
C3_Border ==
    /\ [](animated => /\ -Half(controls) <= drone.x /\ drone.x <= Half(controls)
                      /\ -Half(controls) <= drone.z /\ drone.z <= Half(controls))
    /\ [][animated' =>
            /\ Pushed.x > Half(controls)  => drone'.x = Half(controls)
            /\ Pushed.x < -Half(controls) => drone'.x = -Half(controls)
            /\ Pushed.z > Half(controls)  => drone'.z = Half(controls)
            /\ Pushed.z < -Half(controls) => drone'.z = -Half(controls)]_vars

\* C3 witness: forward held over two frames that both push past the border.
C3_Witness ==
    /\ keys["KeyW"]
    /\ drone.rotY = 0
    /\ steps = 3
    /\ clock = DroneVariables.projectileTTL + 100
    /\ drone.z = -Half(controls)

-----------------------------------------------------------------------------
(* Firing *)

\* A step that is a call of Drone.fire
IsFireCall == lastFire'.n = lastFire.n + 1

\* A step in which a projectile is created
Creates == Len(projectiles') = Len(projectiles) + 1

\* C4: fire creates a projectile only if cooldown <= 0 at the call; a call
\* while cooldown > 0 leaves the projectile list, the scene and the cooldown
\* unchanged; a call that creates a projectile sets cooldown to cooldownTime
\* and gives the new projectile life = projectileTTL.
C4_FireGate ==
    [][IsFireCall =>
          /\ Creates => cooldown <= 0
          /\ cooldown > 0 => UNCHANGED <<projectiles, scene, cooldown>>
          /\ Creates =>
                /\ cooldown' = DroneVariables.cooldownTime
                /\ projectiles'[Len(projectiles')].life = DroneVariables.projectileTTL
                /\ SubSeq(projectiles', 1, Len(projectiles)) = projectiles]_vars

\* C4 witness: a call made during the cooldown of an earlier, successful call.
C4_Witness ==
    /\ lastFire.n >= 2
    /\ lastFire.mode = "first"
    /\ lastFire.cooldown > 0
    /\ Len(projectiles) = 1
    /\ cooldown > 0

\* Cumulative dt passed to update since the last successful fire reached
\* cooldownTime (or nothing was fired yet)
CooldownElapsed ==
    fired = <<>> \/ clock - fired[Len(fired)] >= DroneVariables.cooldownTime

\* C5 as stated: a call of fire creates a projectile exactly when the
\* cumulative dt since the last successful fire has reached cooldownTime.
C5_Original == [][IsFireCall => (Creates <=> CooldownElapsed)]_vars

\* C5 amended: a call of fire made in first-person mode creates a projectile
\* exactly when the cumulative dt since the last successful fire has reached
\* cooldownTime, so two such calls less than cooldownTime apart create one
\* projectile and a call after cooldownTime has elapsed creates one.
C5_Cooldown ==
    [][IsFireCall /\ droneCamera.mode = "first" => (Creates <=> CooldownElapsed)]_vars

\* C5 witness: a successful call, a rejected call within the cooldown and a
\* second successful call after it.
C5_Witness ==
    /\ Len(fired) = 2
    /\ lastFire.n >= 3
    /\ fired[2] - fired[1] >= DroneVariables.cooldownTime

\* C6: a projectile is in drone.projectiles and in the scene exactly while the
\* cumulative dt since its creation is below projectileTTL.
C6_ProjectileTTL ==
    \A id \in 1..Len(fired) :
        /\ id \in ProjectileIds(projectiles)
               <=> clock - fired[id] < DroneVariables.projectileTTL
        /\ id \in scene <=> id \in ProjectileIds(projectiles)

\* C6 witness: one projectile has expired and a later one is live and aged.
C6_Witness ==
    /\ Len(fired) = 2
    /\ ProjectileIds(projectiles) = {2}
    /\ clock - fired[2] > 0

C8_FirstPersonOnly ==
    [][IsFireCall /\ droneCamera.mode # "first" =>
          UNCHANGED <<cooldown, projectiles, scene>>]_vars

\* C8 witness: a call in third-person with the cooldown expired was rejected.
C8_Witness ==
    /\ lastFire.n >= 1
    /\ lastFire.mode = "third"
    /\ lastFire.cooldown <= 0
    /\ fired = <<>>
    /\ cooldown = 0

-----------------------------------------------------------------------------
(* Terrain mesh *)

\* The height the collision query returns at the last vertex written
VertexHeight == getTerrainHeight(vertex.x, vertex.z, noise)

\* C9 as stated: the Y stored for every mesh vertex equals the collision height there.
C9_Original == vertex.i >= 0 => vertex.y = VertexHeight

\* C9 amended: the Y stored for a mesh vertex equals getTerrainHeight(x, z)
\* unless that height lies strictly between -1 and 1, where the mesh stores
\* -1 for a negative height and 1 otherwise.
C9_MeshHeight ==
    vertex.i >= 0 =>
        LET h == VertexHeight
        IN  /\ (h <= -1 * Milli \/ h >= 1 * Milli) => vertex.y = h
            /\ (-1 * Milli < h /\ h < 0) => vertex.y = -1 * Milli
            /\ (0 <= h /\ h < 1 * Milli) => vertex.y = 1 * Milli

\* C9 witness: a vertex whose height lies inside the band.
C9_Witness ==
    /\ vertex.i >= 0
    /\ -1 * Milli < VertexHeight /\ VertexHeight < 0
    /\ vertex.y # VertexHeight

\* The elevation-to-colour table: upper bounds (inclusive) in increasing
\* order with their colours, and the colour above the last bound
Buckets == <<
    [bound |-> TerrainVariables.terrainHeight_m50, hex |-> ColorVariables.terrainColor_m50],
    [bound |-> TerrainVariables.terrainHeight_m40, hex |-> ColorVariables.terrainColor_m40],
    [bound |-> TerrainVariables.terrainHeight_m30, hex |-> ColorVariables.terrainColor_m30],
    [bound |-> TerrainVariables.terrainHeight_m20, hex |-> ColorVariables.terrainColor_m20],
    [bound |-> TerrainVariables.terrainHeight_m10, hex |-> ColorVariables.terrainColor_m10],
    [bound |-> TerrainVariables.terrainHeight_0,   hex |-> ColorVariables.terrainColor_0],
    [bound |-> TerrainVariables.terrainHeight_p10, hex |-> ColorVariables.terrainColor_p10],
    [bound |-> TerrainVariables.terrainHeight_p20, hex |-> ColorVariables.terrainColor_p20],
    [bound |-> TerrainVariables.terrainHeight_p30, hex |-> ColorVariables.terrainColor_p30],
    [bound |-> TerrainVariables.terrainHeight_p40, hex |-> ColorVariables.terrainColor_p40],
    [bound |-> TerrainVariables.terrainHeight_p50, hex |-> ColorVariables.terrainColor_p50],
    [bound |-> TerrainVariables.terrainHeight_p60, hex |-> ColorVariables.terrainColor_p60],
    [bound |-> TerrainVariables.terrainHeight_p70, hex |-> ColorVariables.terrainColor_p70],
    [bound |-> TerrainVariables.terrainHeight_p80, hex |-> ColorVariables.terrainColor_p80],
    [bound |-> TerrainVariables.terrainHeight_p90, hex |-> ColorVariables.terrainColor_p90] >>

CatchAll == ColorVariables.terrainColor_p100

\* The buckets of the table whose range holds h: bucket k ranges over
\* (bound of k - 1, bound of k], bucket Len + 1 is the catch-all
BucketsOf(h) ==
    {k \in 1..(Len(Buckets) + 1) :
        /\ k = 1 \/ h > Buckets[k - 1].bound * Milli
        /\ k = Len(Buckets) + 1 \/ h <= Buckets[k].bound * Milli}

BucketHex(k) == IF k = Len(Buckets) + 1 THEN CatchAll ELSE Buckets[k].hex

\* The bounds of the table that are >= h
BoundsFrom(h) == {k \in 1..Len(Buckets) : h <= Buckets[k].bound * Milli}

\* C10: every height lies in exactly one bucket of the table, and the colour
\* chosen is that of the smallest bound >= h (the catch-all above the last
\* bound); a height equal to a bound gets that bound's bucket.
C10_Classifier ==
    vertex.i >= 0 =>
        LET h  == VertexHeight
            in == BucketsOf(h)
            up == BoundsFrom(h)
        IN  /\ Cardinality(in) = 1
            /\ \A k \in in : vertex.hex = BucketHex(k)
            /\ up = {} => vertex.hex = CatchAll
            /\ \A k \in up : (\A j \in up : k <= j) => vertex.hex = Buckets[k].hex
            /\ \A k \in 1..Len(Buckets) :
                  h = Buckets[k].bound * Milli => vertex.hex = Buckets[k].hex

\* C10 witness: a vertex whose height equals a bound of the table.
C10_Witness ==
    /\ vertex.i >= 0
    /\ LET h == VertexHeight
       IN  \E k \in 1..Len(Buckets) :
               h = Buckets[k].bound * Milli /\ vertex.hex = Buckets[k].hex

-----------------------------------------------------------------------------
(* Flight scenarios *)

\* A frame's dt, read off the clock
FrameDt == clock' - clock

\* No vertical key is held
NoVerticalKey == ~keys["Space"] /\ ~keys["ControlLeft"] /\ ~keys["ControlRight"]

\* C11: with worldSize 8192, border factor 2 and delimiter 0.125 half is
\* 8192 / 2.125 = 3855.058; a drone at x = 4000 has x = half after one
\* applyInput; a drone at y = 10 with no vertical key held keeps y = 10 when
\* the ground under it is at -5 (and whenever ground + 4 <= 10).
C11_Scenario ==
    /\ [](animated /\ controls.worldSize = 8192 => Half(controls) = 3855058)
    /\ [][animated' /\ controls.worldSize = 8192 /\ drone.x = 4000 * Milli /\ ~keys["KeyQ"]
            => drone'.x = 3855058]_vars
    /\ [][animated' /\ drone.y = 10 * Milli /\ NoVerticalKey
                    /\ getTerrainHeight(drone'.x, drone'.z, noise) <= 6 * Milli
            => drone'.y = 10 * Milli]_vars

\* C11 witness: the drone constructed at x = 4000, y = 10 after one frame with
\* no key held: x is half, y is still 10, the ground under it is below sea level.
C11_Witness ==
    /\ animated
    /\ steps = 1
    /\ controls.worldSize = 8192
    /\ drone.x = 3855058
    /\ drone.y = 10 * Milli
    /\ getTerrainHeight(drone.x, drone.z, noise) < 0

\* The half-extent of the square the terrain mesh covers
MeshHalf == (TerrainSize * Milli) \div 2

StrictlyInsideMesh ==
    /\ -MeshHalf < drone.x /\ drone.x < MeshHalf
    /\ -MeshHalf < drone.z /\ drone.z < MeshHalf

\* C12 as stated: after every applyInput the drone's (x, z) lies strictly
\* inside the square [-size/2, size/2] of the mesh.
C12_Original == animated => StrictlyInsideMesh

\* C12 amended: when worldSize is terrain.size (the default) half is strictly
\* less than size/2, and whenever half < size/2 the drone's (x, z) lies
\* strictly inside the mesh square after every applyInput; a configured
\* worldSize with half >= size/2 only keeps (x, z) within [-half, half].
C12_InsideMesh ==
    /\ animated /\ controls.worldSize = TerrainSize => Half(controls) < MeshHalf
    /\ animated /\ Half(controls) < MeshHalf => StrictlyInsideMesh
    /\ animated => /\ -Half(controls) <= drone.x /\ drone.x <= Half(controls)
                   /\ -Half(controls) <= drone.z /\ drone.z <= Half(controls)

\* C12 witness: the drone was pushed against the border of the default
\* configuration and stands on it, inside the mesh.
C12_Witness ==
    /\ animated
    /\ keys["KeyE"]
    /\ controls.worldSize = TerrainSize
    /\ drone.x = Half(controls)
    /\ StrictlyInsideMesh

-----------------------------------------------------------------------------
(* Projectile count *)

\* ceil(a / b) for positive a and b
CeilDiv(a, b) == (a + b - 1) \div b

\* C13: drone.projectiles never holds more than
\* ceil(projectileTTL / cooldownTime) projectiles (14 for 4 s and 0.3 s).
C13_ProjectileBound ==
    /\ CeilDiv(DroneVariables.projectileTTL, DroneVariables.cooldownTime) = 14
    /\ Len(projectiles) <= CeilDiv(DroneVariables.projectileTTL, DroneVariables.cooldownTime)

\* C13 witness: fourteen projectiles are live at once, and a fifteenth was
\* fired after the first had expired.
C13_Witness ==
    /\ Len(projectiles) = 14
    /\ Len(fired) = 15

-----------------------------------------------------------------------------
(* Construction *)

\* C14 as stated: a malformed configuration value (zero, negative or
\* non-numeric moveSpeed, worldSize or heightMax) fails construction, so no
\* simulation runs a frame with a DroneControls holding such a value.
C14_Original ==
    animated =>
        /\ controls.moveSpeed > 0
        /\ controls.worldSize > 0
        /\ controls.heightMax > 0

-----------------------------------------------------------------------------
(* Height queries, cooldown timer and projectile loop *)

IsUpdate == lastFire' = lastFire /\ droneCamera' = droneCamera

\* C16: every update(dt) sets cooldown to max(0, cooldown - dt), whether or
\* not fire was called since the previous update, and 0 <= cooldown <=
\* cooldownTime in every reachable state.
C16_CooldownRange ==
    /\ [](0 <= cooldown /\ cooldown <= DroneVariables.cooldownTime)
    /\ [][IsUpdate => cooldown' = Max(0, cooldown - FrameDt)]_vars

\* C16 witness: a frame shorter than the cooldown has run after a successful fire.
C16_Witness ==
    /\ animated
    /\ Len(fired) >= 1
    /\ 0 < cooldown /\ cooldown < DroneVariables.cooldownTime

\* The indices of the projectiles an update(dt) keeps
Kept(dt) == {i \in 1..Len(projectiles) : projectiles[i].life - dt > 0}

\* C17: an update(dt) advances every projectile live at its start exactly
\* once (position += dir * projectileSpeed * dt, life -= dt), removes exactly
\* those whose life became <= 0 from the list and the scene, keeps the others
\* in order, and no step changes a projectile's dir.
C17_UpdateLoop ==
    /\ [][IsUpdate =>
            /\ Len(projectiles') = Cardinality(Kept(FrameDt))
            /\ \A i \in 1..Len(projectiles) :
                  LET p == projectiles[i]
                      j == Cardinality({k \in Kept(FrameDt) : k <= i})
                  IN  IF i \in Kept(FrameDt)
                      THEN /\ projectiles'[j].id = p.id
                           /\ projectiles'[j].life = p.life - FrameDt
                           /\ projectiles'[j].x = p.x
                                 + MulMilli(p.dx, DroneVariables.projectileSpeed * FrameDt)
                           /\ projectiles'[j].y = p.y
                                 + MulMilli(p.dy, DroneVariables.projectileSpeed * FrameDt)
                           /\ projectiles'[j].z = p.z
                                 + MulMilli(p.dz, DroneVariables.projectileSpeed * FrameDt)
                           /\ p.id \in scene'
                      ELSE /\ p.id \notin ProjectileIds(projectiles')
                           /\ p.id \notin scene']_vars
    /\ [][\A i \in 1..Len(projectiles) : \A j \in 1..Len(projectiles') :
              projectiles'[j].id = projectiles[i].id =>
                  /\ projectiles'[j].dx = projectiles[i].dx
                  /\ projectiles'[j].dy = projectiles[i].dy
                  /\ projectiles'[j].dz = projectiles[i].dz]_vars

\* C17 witness: of two projectiles fired cooldownTime apart one update
\* removed the first and advanced the second, which has cooldownTime left.
C17_Witness ==
    /\ Len(fired) = 2
    /\ ProjectileIds(projectiles) = {2}
    /\ projectiles[1].life = DroneVariables.cooldownTime
    /\ clock = DroneVariables.projectileTTL

-----------------------------------------------------------------------------
(* applyInput: speed regime, order of the steps, opposing keys *)

\* A Shift key is held in the frame
BoostHeld == keys["ShiftLeft"] \/ keys["ShiftRight"]

\* The step the frame should translate and climb by
FrameMove ==
    controls.moveSpeed * FrameDt
        * (IF BoostHeld THEN DroneVariables.thrustMultiplier
                        ELSE DroneVariables.basicMultiplier)

\* +1 for ascend, -1 for descend
VerticalKeys ==
    (IF keys["Space"] THEN 1 ELSE 0)
        - (IF keys["ControlLeft"] \/ keys["ControlRight"] THEN 1 ELSE 0)

\* The lower altitude limit at the x and z the step ends with
GroundLimitAfter ==
    Max(DroneVariables.nullPoint * Milli,
        getTerrainHeight(drone'.x, drone'.z, noise) + DroneVariables.minAboveGround * Milli)

\* C18: in every applyInput the translation and the vertical step are
\* moveSpeed * dt * thrustMultiplier if a Shift key is held in that frame and
\* moveSpeed * dt * basicMultiplier otherwise, whatever earlier frames used,
\* and the yaw step is rotateSpeed * dt with or without boost.
C18_SpeedRegime ==
    [][animated' =>
          /\ drone'.y = Max(GroundLimitAfter,
                            Min(controls.heightMax * Milli,
                                drone.y + VerticalKeys * FrameMove))
          /\ drone'.x = ClampBorder(Translate(drone, keys, FrameMove).x, Half(controls))
          /\ drone'.z = ClampBorder(Translate(drone, keys, FrameMove).z, Half(controls))
          /\ Abs(drone'.rotY - drone.rotY) \in {0, controls.rotateSpeed * FrameDt}]_vars

\* C18 witness: ascending for a frame of 0.1 s without Shift and then for a
\* frame of 0.1 s with Shift: 6.4 and then 19.2 units.
C18_Witness ==
    /\ steps = 4
    /\ keys["Space"] /\ keys["ShiftLeft"]
    /\ clock = 200
    /\ drone.y = StartPositionVariables.startPosY * Milli + 6400 + 19200

\* C19: applyInput translates along the heading from before the frame's yaw
\* change, then yaws, then moves vertically, then clamps x and z, and clamps
\* y against the ground height at the x and z reached after the translation
\* and the border clamp.
C19_StepOrder ==
    [][animated' =>
          LET move  == MoveStep(controls, keys, FrameDt)
              moved == Translate(drone, keys, move)
          IN  /\ drone'.x = ClampBorder(moved.x, Half(controls))
              /\ drone'.z = ClampBorder(moved.z, Half(controls))
              /\ drone'.rotY = Rotate(drone, keys, RotStep(controls, FrameDt)).rotY
              /\ drone'.y = ClampAltitude(Altitude(drone, keys, move).y,
                                          GroundLimitAfter, controls.heightMax * Milli)]_vars

\* C19 witness: forward and yaw-left held through one frame: the drone flew
\* straight along the heading it had before the frame although its yaw
\* changed, and was lifted onto the ground limit of the place it reached,
\* which is higher than the limit of the place it left.
C19_Witness ==
    /\ steps = 3
    /\ keys["KeyW"] /\ keys["KeyA"]
    /\ drone.rotY > 0
    /\ drone.x = 0 /\ drone.z < 0
    /\ drone.y = GroundLimit
    /\ drone.y > StartPositionVariables.startPosY * Milli
    /\ MinHeight(getTerrainHeight(0, 0, noise)) < StartPositionVariables.startPosY * Milli

\* The held keys without the opposing pairs that are held together
Cancelled ==
    LET both(a, b) == keys[a] /\ keys[b]
        down == keys["ControlLeft"] \/ keys["ControlRight"]
    IN  [code \in KeyCodes |->
            /\ keys[code]
            /\ ~(code \in {"KeyW", "KeyS"} /\ both("KeyW", "KeyS"))
            /\ ~(code \in {"KeyQ", "KeyE"} /\ both("KeyQ", "KeyE"))
            /\ ~(code \in {"KeyA", "KeyD"} /\ both("KeyA", "KeyD"))
            /\ ~(code \in {"Space", "ControlLeft", "ControlRight"}
                    /\ keys["Space"] /\ down)]

\* +1 for yaw left, -1 for yaw right
YawKeys == (IF keys["KeyA"] THEN 1 ELSE 0) - (IF keys["KeyD"] THEN 1 ELSE 0)

\* C20: KeyA alone increases yaw by rotateSpeed * dt, KeyD alone decreases it
\* by as much, no other step changes yaw, and a frame with both keys of an
\* opposing pair held (A+D, W+S, Q+E, Space+Ctrl) ends as if neither was held.
C20_OpposingKeys ==
    /\ [][drone'.rotY = drone.rotY + YawKeys * controls.rotateSpeed * FrameDt]_vars
    /\ [][animated' =>
            LET d == applyInput(drone, controls, Cancelled, noise, FrameDt)
            IN  /\ drone'.x = d.x /\ drone'.y = d.y /\ drone'.z = d.z
                /\ drone'.rotY = d.rotY]_vars

\* C20 witness: KeyA and KeyD were both held through a frame and the yaw is
\* what it was.
C20_Witness ==
    /\ animated
    /\ keys["KeyA"] /\ keys["KeyD"]
    /\ clock > 0
    /\ drone.rotY = 0

-----------------------------------------------------------------------------
(* Terrain mesh: surface finish and the water plane *)

\* The colours of the buckets whose threshold is at most terrainHeight_0
WaterColors ==
    {Buckets[k].hex : k \in {j \in 1..Len(Buckets) :
                                Buckets[j].bound <= TerrainVariables.terrainHeight_0}}

WaterFinish ==
    /\ vertex.metalness = ColorVariables.waterMetalness
    /\ vertex.roughness = ColorVariables.waterRoughness

LandFinish ==
    /\ vertex.metalness = ColorVariables.landMetalness
    /\ vertex.roughness = ColorVariables.landRoughness

\* C22: a vertex has the water finish exactly when its height is <= 0, which
\* is exactly when its colour belongs to a bucket with threshold <=
\* terrainHeight_0; every other vertex has the land finish and a colour of a
\* bucket above terrainHeight_0.
C22_FinishMatchesColor ==
    vertex.i >= 0 =>
        LET h == VertexHeight
        IN  /\ WaterFinish <=> h <= 0
            /\ h <= 0 <=> vertex.hex \in WaterColors
            /\ h > 0 => LandFinish /\ vertex.hex \notin WaterColors
            /\ WaterFinish \/ LandFinish

\* C22 witness: a vertex whose height is exactly 0, with the water finish and
\* the colour of the terrainHeight_0 bucket.
C22_Witness ==
    /\ vertex.i >= 0
    /\ VertexHeight = 0
    /\ WaterFinish
    /\ vertex.hex = ColorVariables.terrainColor_0

\* C30 as stated: no vertex lies inside the open band (-1, 1), every vertex
\* with the water finish is rendered below the water plane and every vertex
\* with the land finish above it.
C30_Original ==
    vertex.i >= 0 =>
        /\ ~(-1 * Milli < vertex.y /\ vertex.y < 1 * Milli)
        /\ WaterFinish => vertex.y < WaterPlaneY
        /\ LandFinish => vertex.y > WaterPlaneY

-----------------------------------------------------------------------------
(* Key flags and the order of the projectile list *)

\* The drone's position and yaw are what they were
DroneStays ==
    /\ drone'.x = drone.x /\ drone'.y = drone.y /\ drone'.z = drone.z
    /\ drone'.rotY = drone.rotY

\* C23: a key event changes the flag of its own code only and moves nothing;
\* a frame leaves the flags as they are and moves the drone by exactly what
\* the flags held at the frame say, so a key pressed and released between two
\* frames has no effect and a held key acts until its keyup.
C23_InputFlags ==
    /\ [][keys' # keys =>
            /\ DroneStays
            /\ clock' = clock
            /\ \A a, b \in KeyCodes :
                  keys'[a] # keys[a] /\ keys'[b] # keys[b] => a = b]_vars
    /\ [][clock' # clock \/ animated' # animated =>
            /\ keys' = keys
            /\ LET d == applyInput(drone, controls, keys, noise, FrameDt)
               IN  /\ drone'.x = d.x /\ drone'.y = d.y /\ drone'.z = d.z
                   /\ drone'.rotY = d.rotY]_vars

\* C23 witness: four steps, two of them frames and two the press and the
\* release of one key, and the drone has not left its place.
C23_Witness ==
    /\ steps = 4
    /\ clock = DroneVariables.projectileTTL + 100
    /\ \A code \in KeyCodes : ~keys[code]
    /\ drone.x = 0 /\ drone.z = 0 /\ drone.rotY = 0

\* C28: drone.projectiles is in firing order and the remaining life strictly
\* increases with the index, so projectiles expire in the order they were fired.
C28_FiringOrder ==
    \A i, j \in 1..Len(projectiles) :
        i < j => /\ projectiles[i].id < projectiles[j].id
                 /\ projectiles[i].life < projectiles[j].life

\* C28 witness: three projectiles fired cooldownTime apart are live.
C28_Witness ==
    /\ Len(projectiles) = 3
    /\ projectiles[1].life < projectiles[2].life
    /\ projectiles[2].life < projectiles[3].life

-----------------------------------------------------------------------------
(* Camera mode, crosshair and view angles *)

\* C25: the mode starts at "third" and only ever flips between "third" and
\* "first", the drone model is visible exactly when the mode is "third", and
\* every change into "first" leaves yaw = 0 and pitch = 0.
C25_ModeToggle ==
    /\ [](/\ droneCamera.mode \in {"third", "first"}
          /\ steps = 0 => droneCamera.mode = "third"
          /\ drone.visible <=> droneCamera.mode = "third")
    /\ [][droneCamera'.mode = "first" /\ droneCamera.mode # "first" =>
              droneCamera'.yaw = 0 /\ droneCamera'.pitch = 0]_vars

\* C25 witness: the mode is "third" again with the pitch of 0 that only a
\* passage through "first" leaves, after the left button was used to orbit.
C25_Witness ==
    /\ droneCamera.mode = "third"
    /\ drone.visible
    /\ droneCamera.isDragging
    /\ droneCamera.pitch = 0
    /\ droneCamera.yaw = 0
    /\ steps = 4

\* C26 as stated: in every reachable state the crosshair is displayed
\* exactly when the camera mode is "first".
C26_Original == crosshair = Display(TRUE) <=> droneCamera.mode = "first"

\* C29 as stated: in mode "third" the pitch is within [-60, 60] degrees; in
\* mode "first" the pitch is within [-67.5, 10] degrees and the yaw within
\* [-45, 45] degrees.
C29_Original ==
    /\ droneCamera.mode = "third" =>
          /\ degToRad(-60000) <= droneCamera.pitch
          /\ droneCamera.pitch <= degToRad(60000)
    /\ droneCamera.mode = "first" =>
          /\ degToRad(-67500) <= droneCamera.pitch
          /\ droneCamera.pitch <= degToRad(10000)
          /\ degToRad(-45000) <= droneCamera.yaw
          /\ droneCamera.yaw <= degToRad(45000)

-----------------------------------------------------------------------------
(* The frame as a whole *)

\* What only a frame changes: the time, the camera pose, the crosshair
FrameEffect ==
    clock' # clock \/ camera' # camera \/ crosshair' # crosshair \/ animated' # animated

QuietStep ==
    /\ keys' = keys
    /\ droneCamera' = droneCamera
    /\ lastFire' = lastFire
    /\ clock' = clock

\* C24: after an earlier frame, a frame with dt = 0 leaves the drone's
\* position and yaw, the cooldown and the projectiles unchanged, whatever
\* keys are held; and the time never runs backwards (dt >= 0).
C24_ZeroFrame ==
    /\ [][animated /\ QuietStep =>
              /\ drone'.x = drone.x /\ drone'.y = drone.y /\ drone'.z = drone.z
              /\ drone'.rotY = drone.rotY
              /\ cooldown' = cooldown
              /\ projectiles' = projectiles
              /\ scene' = scene]_vars
    /\ [][clock' >= clock]_vars

\* C24 witness: five steps, the last one a frame with dt = 0: it has put the
\* camera at the drone and shown the crosshair, while the drone with W held
\* is where it was, the projectile fired before that frame has its full
\* life and the cooldown its full length.
C24_Witness ==
    /\ steps = 5
    /\ clock = 100
    /\ keys["KeyW"]
    /\ drone.x = 0 /\ drone.z = 0
    /\ droneCamera.mode = "first"
    /\ crosshair = Display(TRUE)
    /\ camera.x = drone.x /\ camera.y = drone.y /\ camera.z = drone.z
    /\ Len(projectiles) = 1
    /\ projectiles[1].life = DroneVariables.projectileTTL
    /\ projectiles[1].z # drone.z
    /\ cooldown = DroneVariables.cooldownTime

\* C27 as stated: a projectile that fire creates starts at the drone's
\* current position.
C27_Original ==
    [][IsFireCall /\ Len(projectiles') = Len(projectiles) + 1 =>
          LET p == projectiles'[Len(projectiles')]
          IN  p.x = drone.x /\ p.y = drone.y /\ p.z = drone.z]_vars

====
